---- MODULE Spec2Model ----
(***************************************************************************)
(* Model of python/formotensor_bridge.cpp: the TensorNetworkHelper static  *)
(* methods called on a duck-typed Python state object.                     *)
(*                                                                         *)
(* The state object is a description of its attribute surface; every       *)
(* helper is a pure function of that description and of the outcomes of    *)
(* the two environment calls (host allocation, cudaMemcpy).  Each helper   *)
(* returns its C++ outcome (a value or a thrown exception) together with   *)
(* the sequence of calls it made into Python and the CUDA runtime.         *)
(***************************************************************************)
EXTENDS Integers, Sequences, FiniteSets, TLC

VARIABLES
    state,   \* the py::object handed to every helper (never mutated)
    call,    \* the helper invoked last and its tensor_idx
    result,  \* what that helper returned or threw
    events   \* the Python / CUDA calls that helper made, in order

vars == <<state, call, result, events>>

----------------------------------------------------------------------------
(* Bounds of the model *)

MaxTensors == 5      \* longest tensor network of the enumeration family
MaxProbed == 1       \* longest network behind a partly missing accessor set
MaxRank == 3         \* longest extents vector of the single-tensor family
DeviceLen == 4       \* elements held by each live device allocation

(* size_t is 64 bits wide: 8 limbs of 8 bits, least significant first *)
SizeLimbs == 8
\* limbs used for the product of the extents taken without wrap-around
WideLimbs == 16

Limb == 2^8

\* dimension sizes an extents vector is drawn from
DimValues == {0, 2, 3 * 2^20}

\* device addresses: 0 is nullptr, 16 and 48 are live allocations of
\* DeviceLen elements, 32 was never allocated
LiveAddrs == {16, 48}
Addrs == {0, 32} \cup LiveAddrs

DeviceMem(addr) == [k \in 1..DeviceLen |-> addr * 10 + k]

----------------------------------------------------------------------------
(* Unsigned arithmetic on limb sequences *)

RECURSIVE MulLimbs(_, _, _, _)
\* w * d + carry, truncated to Len(w) limbs, from limb i on
MulLimbs(w, d, i, carry) ==
    IF i > Len(w) THEN <<>>
    ELSE LET t == w[i] * d + carry
         IN  <<t % Limb>> \o MulLimbs(w, d, i + 1, t \div Limb)

\* w * d modulo 2^(8 * Len(w))
Mul(w, d) == MulLimbs(w, d, 1, 0)

\* the number n (n < Limb) in k limbs
Word(n, k) == [i \in 1..k |-> IF i = 1 THEN n ELSE 0]

Low(w, k) == SubSeq(w, 1, k)

RECURSIVE LimbsToNat(_, _)
LimbsToNat(w, i) ==
    IF i > Len(w) THEN 0 ELSE w[i] + Limb * LimbsToNat(w, i + 1)

\* w as a number, when it is small enough to be one (below 2^24)
IsSmall(w) == \A i \in 4..Len(w) : w[i] = 0
ToNat(w) == LimbsToNat(SubSeq(w, 1, 3), 1)

RECURSIVE ProductFrom(_, _, _)
\* acc * extents[i] * ... * extents[Len(extents)], in Len(acc) limbs
ProductFrom(extents, i, acc) ==
    IF i > Len(extents) THEN acc
    ELSE ProductFrom(extents, i + 1, Mul(acc, extents[i]))

----------------------------------------------------------------------------
(* Python objects as the bridge sees them *)

\* plain (non-callable) values
PyInt(n) == [t |-> "int", n |-> n, call |-> "notcallable"]
PyCapsule(a) == [t |-> "capsule", n |-> a, call |-> "notcallable"]
PyNone == [t |-> "none", n |-> 0, call |-> "notcallable"]
PyStr == [t |-> "str", n |-> 0, call |-> "notcallable"]
PyList(items) == [t |-> "list", n |-> 0, call |-> "notcallable", items |-> items]
\* a bound method that returns ret / that raises a Python error
PyMethod(ret) == [t |-> "method", n |-> 0, call |-> "returns", ret |-> ret]
PyRaising == [t |-> "method", n |-> 0, call |-> "raises"]
\* an instance of a pybind11-registered C++ class that defines __call__
\* and raises from it; a is the address of the wrapped C++ value
PyCppCallable(a) == [t |-> "cppinst", n |-> a, call |-> "raises"]

\* attributes: missing, a lookup that itself raises, or a value
Absent == [look |-> "absent"]
LookupRaises == [look |-> "raises"]
Has(obj) == [look |-> "ok", obj |-> obj]

\* what getTensor(i) yields: a tensor-like object, or a raised error
Tensor(extents, data) == [t |-> "tensor", extents |-> extents, data |-> data]
Malformed == [t |-> "raises"]

\* what getTensors() yields: an object without __len__, one whose __len__
\* works, or one whose __len__ raises
Collection(len) == [t |-> "collection", len |-> len]

----------------------------------------------------------------------------
(* C++ outcomes: a returned value or a thrown exception, each with the     *)
(* calls made on the way                                                   *)

Return(v, ev) == [thrown |-> FALSE, value |-> v, ev |-> ev]
Throw(type, what, ev) == [thrown |-> TRUE, type |-> type, what |-> what, ev |-> ev]

\* the exception types that derive from std::exception
StdExceptions == {"runtime_error", "cast_error", "error_already_set",
                  "bad_alloc", "length_error"}

\* e.what() of an exception raised by Python code
PyErrText(how) == <<"python error: ", how>>
CastErrText == <<"Unable to cast Python instance to C++ type">>

----------------------------------------------------------------------------
(* pybind11 primitives used by the bridge *)

\* py::hasattr: PyObject_HasAttrString(...) == 1, false when the lookup raises
hasattr(attr) == attr.look = "ok"

\* obj.cast<void*>(): None, a capsule, or a registered C++ instance
CastVoidPtr(obj, ev) ==
    CASE obj.t = "none" -> Return(0, ev)
      [] obj.t \in {"capsule", "cppinst"} -> Return(obj.n, ev)
      [] OTHER -> Throw("cast_error", CastErrText, ev)

\* obj.cast<uintptr_t>() / cast<size_t>() of a Python int
CastUnsigned(obj, ev) ==
    IF obj.t = "int" /\ obj.n >= 0 THEN Return(obj.n, ev)
    ELSE Throw("cast_error", CastErrText, ev)

\* attr(name)(): look the attribute up and call it
CallAttr(attr, ev) ==
    CASE attr.look = "absent" -> Throw("error_already_set", PyErrText("AttributeError"), ev)
      [] attr.look = "raises" -> Throw("error_already_set", PyErrText("lookup raised"), ev)
      [] attr.obj.call = "notcallable" ->
            Throw("error_already_set", PyErrText("TypeError: object is not callable"), ev)
      [] attr.obj.call = "raises" ->
            Throw("error_already_set", PyErrText("RuntimeError raised by the callable"), ev)
      [] OTHER -> Return(attr.obj.ret, ev)

\* state.attr("getTensor")(idx)
CallGetTensor(st, idx, ev) ==
    LET e == Append(ev, "state.getTensor()")
    IN  IF st.getTensor.look # "ok" \/ st.getTensor.obj.call # "returns"
        THEN CallAttr(st.getTensor, e)
        ELSE IF idx + 1 \in DOMAIN st.tensors /\ st.tensors[idx + 1].t = "tensor"
             THEN Return(st.tensors[idx + 1], e)
             ELSE Throw("error_already_set", PyErrText("getTensor raised"), e)

----------------------------------------------------------------------------
(* struct TensorInfo *)

\* sizeof(std::complex<double>)
ElementSize == 16

\* TensorInfo(): total_elements(0), size_bytes(0), device_ptr(0), dtype("unknown")
DefaultTensorInfo ==
    [shape |-> <<>>, total_elements |-> Word(0, SizeLimbs),
     size_bytes |-> Word(0, SizeLimbs), dtype |-> "unknown", device_ptr |-> 0]

----------------------------------------------------------------------------
(* TensorNetworkHelper::get_num_qubits *)

get_num_qubits_impl(st) ==
    LET e1 == <<"hasattr(state,num_qubits)">>
        e2 == Append(e1, "state.num_qubits()")
    IN  IF ~hasattr(st.num_qubits)
        THEN Throw("runtime_error",
                   <<"State object does not have 'num_qubits' method">>, e1)
        ELSE LET r == CallAttr(st.num_qubits, e2)
             IN  IF r.thrown THEN r ELSE CastUnsigned(r.value, e2)

\* has_tensors with a probe that lets a raising lookup through
has_tensors_propagating(st) ==
    IF st.getTensors.look = "raises"
          \/ (st.getTensors.look = "absent" /\ st.getTensor.look = "raises")
    THEN Throw("error_already_set", PyErrText("lookup raised"),
               <<"hasattr(state,getTensors)">>)
    ELSE Return(st.getTensors.look = "ok" \/ st.getTensor.look = "ok",
                <<"hasattr(state,getTensors)", "hasattr(state,getTensor)">>)

(* TensorNetworkHelper::has_tensors *)

has_tensors_impl(st) ==
    IF hasattr(st.getTensors)
    THEN Return(TRUE, <<"hasattr(state,getTensors)">>)
    ELSE Return(hasattr(st.getTensor),
                <<"hasattr(state,getTensors)", "hasattr(state,getTensor)">>)

----------------------------------------------------------------------------
(* TensorNetworkHelper::get_tensor_info *)

\* the product started from the constructor's total_elements(0)
TotalElementsFromZero(extents) == ProductFrom(extents, 1, Word(0, SizeLimbs))

\* total_elements = 1; for (dim : extents) total_elements *= dim;
TotalElements(extents) == ProductFrom(extents, 1, Word(1, SizeLimbs))

\* total_elements * sizeof(std::complex<double>)
SizeBytes(total) == Mul(total, ElementSize)

\* the "extents" branch: fills shape, total_elements, size_bytes, dtype
WithExtents(info, extents) ==
    [info EXCEPT !.shape = extents,
                 !.total_elements = TotalElements(extents),
                 !.size_bytes = SizeBytes(TotalElements(extents)),
                 !.dtype = "complex128"]

\* the data probe nested inside the extents branch
WithDataWhenShaped(info, tensor_obj) ==
    IF hasattr(tensor_obj.data) /\ info.dtype = "complex128"
    THEN [info EXCEPT !.device_ptr = 1]
    ELSE info

\* the "data" branch: device_ptr = 1 marks the data as available
WithData(info, tensor_obj) ==
    IF hasattr(tensor_obj.data) THEN [info EXCEPT !.device_ptr = 1] ELSE info

\* tensor_obj.attr("extents").cast<std::vector<size_t>>()
CastExtents(attr, ev) ==
    CASE attr.look # "ok" -> Throw("error_already_set", PyErrText("AttributeError"), ev)
      [] attr.obj.t = "list" -> Return(attr.obj.items, ev)
      [] OTHER -> Throw("cast_error", CastErrText, ev)

\* the try block of get_tensor_info
TensorInfoBody(st, idx, ev) ==
    LET t == CallGetTensor(st, idx, ev)
    IN  IF t.thrown THEN t
        ELSE LET e1 == Append(t.ev, "hasattr(tensor,extents)")
             IN  IF hasattr(t.value.extents)
                 THEN LET x == CastExtents(t.value.extents, Append(e1, "tensor.extents"))
                      IN  IF x.thrown THEN x
                          ELSE Return(WithData(WithExtents(DefaultTensorInfo, x.value),
                                               t.value),
                                      Append(x.ev, "hasattr(tensor,data)"))
                 ELSE Return(WithData(DefaultTensorInfo, t.value),
                             Append(e1, "hasattr(tensor,data)"))

get_tensor_info_impl(st, idx) ==
    LET e1 == <<"hasattr(state,getTensor)">>
    IN  IF ~hasattr(st.getTensor)
        THEN Throw("runtime_error", <<"State object does not support getTensor()">>, e1)
        ELSE LET r == TensorInfoBody(st, idx, e1)
             IN  IF r.thrown /\ r.type \in StdExceptions
                 THEN Throw("runtime_error", <<"Failed to get tensor info: ">> \o r.what, r.ev)
                 ELSE r

----------------------------------------------------------------------------
(* TensorNetworkHelper::extract_tensor_data *)

\* the fallback taken only when data is not callable
ResolveDevicePtrStrict(data, ev) ==
    LET called == CallAttr(data, Append(ev, "tensor.data()"))
    IN  IF ~called.thrown
        THEN IF called.value.t = "int"
             THEN CastUnsigned(called.value, called.ev)
             ELSE CastVoidPtr(called.value, called.ev)
        ELSE IF data.look = "ok" /\ data.obj.call = "notcallable"
             THEN CastVoidPtr(data.obj, Append(called.ev, "tensor.data"))
             ELSE called

\* the inner try and its catch (py::error_already_set): call data(), and on
\* any Python error read the attribute itself
ResolveDevicePtr(data, ev) ==
    LET called == CallAttr(data, Append(ev, "tensor.data()"))
    IN  IF ~called.thrown
        THEN IF called.value.t = "int"
             THEN CastUnsigned(called.value, called.ev)
             ELSE CastVoidPtr(called.value, called.ev)
        ELSE LET e2 == Append(called.ev, "tensor.data")
             IN  IF data.look # "ok"
                 THEN Throw("error_already_set", PyErrText("AttributeError"), e2)
                 ELSE CastVoidPtr(data.obj, e2)

\* std::vector<std::complex<double>> host_data(total_size): max_size() is
\* PTRDIFF_MAX / 16, below 2^59; a smaller request fails when the host says so
HostAlloc(total_size, alloc, ev) ==
    IF total_size[SizeLimbs] >= 2^3
    THEN Throw("length_error", <<"cannot create std::vector larger than max_size()">>, ev)
    ELSE IF alloc # "ok"
         THEN Throw("bad_alloc", <<"std::bad_alloc">>, ev)
         ELSE Return(total_size, ev)

\* cudaMemcpy(host, device_ptr, bytes, cudaMemcpyDeviceToHost): the error the
\* device reports, else cudaSuccess when the range read is live device memory
CudaMemcpy(device_ptr, total_size, cuda) ==
    IF cuda # "cudaSuccess" THEN cuda
    ELSE IF IsSmall(total_size)
            /\ (ToNat(total_size) = 0
                \/ (device_ptr \in LiveAddrs /\ ToNat(total_size) <= DeviceLen))
         THEN "cudaSuccess"
         ELSE "cudaErrorInvalidValue"

\* cudaGetErrorString
CudaGetErrorString(err) ==
    CASE err = "cudaErrorInvalidValue" -> "invalid argument"
      [] err = "cudaErrorIllegalAddress" -> "an illegal memory access was encountered"
      [] OTHER -> "no error"

\* the py::array_t built from host_data after a successful copy
HostBuffer(extents, device_ptr, total_size) ==
    [shape |-> extents,
     data |-> [k \in 1..ToNat(total_size) |-> DeviceMem(device_ptr)[k]]]

\* the copy whose error code is not looked at
CopyToHostUnchecked(extents, device_ptr, alloc, cuda, ev) ==
    LET total_size == TotalElements(extents)
        host == HostAlloc(total_size, alloc, ev)
        err == CudaMemcpy(device_ptr, total_size, cuda)
        e2 == ev \o <<"cudaMemcpy", err>>
    IN  IF host.thrown THEN host
        ELSE IF err # "cudaSuccess"
             THEN Return([shape |-> extents, data |-> <<>>], e2)
             ELSE Return(HostBuffer(extents, device_ptr, total_size), e2)

\* the copy tried a second time when the first one failed
CopyToHostRetrying(extents, device_ptr, alloc, cuda, ev) ==
    LET total_size == TotalElements(extents)
        host == HostAlloc(total_size, alloc, ev)
        err == CudaMemcpy(device_ptr, total_size, cuda)
        e2 == ev \o <<"cudaMemcpy", err>>
    IN  IF host.thrown THEN host
        ELSE IF err # "cudaSuccess"
             THEN Throw("runtime_error",
                        <<"CUDA memcpy failed: ", CudaGetErrorString(err)>>,
                        e2 \o <<"cudaMemcpy", err>>)
             ELSE Return(HostBuffer(extents, device_ptr, total_size), e2)

\* from the allocation to the return, once extents and pointer are known
CopyToHost(extents, device_ptr, alloc, cuda, ev) ==
    LET total_size == TotalElements(extents)
        host == HostAlloc(total_size, alloc, ev)
        err == CudaMemcpy(device_ptr, total_size, cuda)
        e2 == ev \o <<"cudaMemcpy", err>>
    IN  IF host.thrown THEN host
        ELSE IF err # "cudaSuccess"
             THEN Throw("runtime_error",
                        <<"CUDA memcpy failed: ", CudaGetErrorString(err)>>, e2)
             ELSE Return(HostBuffer(extents, device_ptr, total_size), e2)

\* the outer try block
ExtractBody(st, idx, alloc, cuda, ev) ==
    LET t == CallGetTensor(st, idx, ev)
    IN  IF t.thrown THEN t
        ELSE LET e1 == Append(t.ev, "hasattr(tensor,data)")
                 e2 == Append(e1, "hasattr(tensor,extents)")
                 missing == <<"Tensor object does not expose 'data' or 'extents' attributes">>
             IN  IF ~hasattr(t.value.data) THEN Throw("runtime_error", missing, e1)
                 ELSE IF ~hasattr(t.value.extents) THEN Throw("runtime_error", missing, e2)
                 ELSE LET x == CastExtents(t.value.extents, Append(e2, "tensor.extents"))
                      IN  IF x.thrown THEN x
                          ELSE LET p == ResolveDevicePtr(t.value.data, x.ev)
                               IN  IF p.thrown THEN p
                                   ELSE CopyToHost(x.value, p.value, alloc, cuda, p.ev)

extract_tensor_data_impl(st, idx, alloc, cuda) ==
    LET e1 == <<"hasattr(state,getTensor)">>
    IN  IF ~hasattr(st.getTensor)
        THEN Throw("runtime_error", <<"State object does not support getTensor()">>, e1)
        ELSE LET r == ExtractBody(st, idx, alloc, cuda, e1)
             IN  IF r.thrown /\ r.type \in StdExceptions
                 THEN Throw("runtime_error",
                            <<"Failed to extract tensor data: ">> \o r.what, r.ev)
                 ELSE r

----------------------------------------------------------------------------
(* TensorNetworkHelper::get_all_tensors_info *)

\* the loop without its try / catch
CaughtNothing(r) == FALSE

\* a handler that lets the missing-getTensor error through
CaughtOnlyWrapped(r) == r.thrown /\ r.what[1] = "Failed to get tensor info: "

\* catch (...) { continue; }: whatever get_tensor_info threw is caught
Caught(r) == r.thrown

\* insertion at the front
PushFront(tensors, info) == <<info>> \o tensors

\* tensors.push_back(info)
PushBack(tensors, info) == Append(tensors, info)

RECURSIVE LoopFrom(_, _, _, _, _)
\* for (size_t i = ...; i < num_tensors; ++i) { try { push_back } catch ... }
LoopFrom(st, i, num_tensors, tensors, ev) ==
    IF i >= num_tensors THEN Return(tensors, ev)
    ELSE LET r == get_tensor_info_impl(st, i)
         IN  IF ~r.thrown
             THEN LoopFrom(st, i + 1, num_tensors, PushBack(tensors, r.value), ev \o r.ev)
             ELSE IF Caught(r)
                  THEN LoopFrom(st, i + 1, num_tensors, tensors, ev \o r.ev)
                  ELSE Throw(r.type, r.what, ev \o r.ev)

\* py::len(tensors_obj): the collection getTensors() returns holds the
\* tensors getTensor(i) indexes
PyLen(st, tensors_obj, ev) ==
    IF tensors_obj.len = "raises"
    THEN Throw("error_already_set", PyErrText("__len__ raised"), ev)
    ELSE Return(Len(st.tensors), ev)

get_all_tensors_info_impl(st) ==
    LET e1 == <<"hasattr(state,getTensors)">>
    IN  IF ~hasattr(st.getTensors) THEN Return(<<>>, e1)
        ELSE LET c == CallAttr(st.getTensors, Append(e1, "state.getTensors()"))
                 e2 == Append(c.ev, "hasattr(tensors,__len__)")
             IN  IF c.thrown
                 THEN Throw("runtime_error", <<"Failed to get tensors: ">> \o c.what, c.ev)
                 ELSE IF c.value.len = "absent" THEN Return(<<>>, e2)
                 ELSE LET n == PyLen(st, c.value, Append(e2, "len(tensors)"))
                          r == IF n.thrown THEN n
                               ELSE LoopFrom(st, 0, n.value, <<>>, n.ev)
                      IN  IF r.thrown /\ r.type \in StdExceptions
                          THEN Throw("runtime_error",
                                     <<"Failed to get tensors: ">> \o r.what, r.ev)
                          ELSE r

----------------------------------------------------------------------------
(* The state objects the helpers are called on *)

RECURSIVE SeqsUpTo(_, _)
\* the sequences over S of length at most n
SeqsUpTo(S, n) ==
    IF n = 0 THEN {<<>>}
    ELSE LET shorter == SeqsUpTo(S, n - 1)
         IN  shorter \cup {Append(q, x) : q \in {r \in shorter : Len(r) = n - 1}, x \in S}

\* the values a device pointer is encoded as
PointerValues ==
    {PyInt(a) : a \in Addrs \cup {-1}} \cup {PyCapsule(a) : a \in Addrs}
        \cup {PyNone, PyStr}

\* the forms of a tensor's "data" attribute: a plain value, a method
\* returning one, a method that raises, a callable C++ instance that raises
DataAttrs ==
    {Absent, LookupRaises, Has(PyRaising)}
        \cup {Has(v) : v \in PointerValues}
        \cup {Has(PyMethod(v)) : v \in PointerValues}
        \cup {Has(PyCppCallable(a)) : a \in LiveAddrs}

\* the forms of a tensor's "extents" attribute
ExtentsAttrs ==
    {Absent, LookupRaises, Has(PyStr)}
        \cup {Has(PyList(x)) : x \in SeqsUpTo(DimValues, MaxRank)}

\* a CUDA-Q style tensor: extents [2,2], data() returning an address
PlainTensor == Tensor(Has(PyList(<<2, 2>>)), Has(PyMethod(PyInt(16))))

\* the tensors a network is made of: well formed, without extents, or one
\* whose getTensor call raises
NetworkTensors == {PlainTensor, Tensor(Absent, Has(PyMethod(PyInt(16)))), Malformed}

\* networks of up to MaxTensors tensors behind both accessors
NetworkStates ==
    [num_qubits : {Has(PyMethod(PyInt(2)))},
     getTensors : {Has(PyMethod(Collection("ok")))},
     getTensor  : {Has(PyMethod(PyNone))},
     tensors    : SeqsUpTo(NetworkTensors, MaxTensors)]

\* every combination of present, missing and failing accessors, in front
\* of a network of up to MaxProbed tensors
ProbedStates ==
    [num_qubits : {Absent, Has(PyMethod(PyInt(2))), Has(PyMethod(PyStr))},
     getTensors : {Absent, LookupRaises, Has(PyRaising),
                   Has(PyMethod(Collection("absent"))),
                   Has(PyMethod(Collection("raises"))),
                   Has(PyMethod(Collection("ok")))},
     getTensor  : {Absent, LookupRaises, Has(PyMethod(PyNone))},
     tensors    : SeqsUpTo(NetworkTensors, MaxProbed)]

\* one tensor of any shape and any form of data attribute
SingleTensorStates ==
    [num_qubits : {Has(PyMethod(PyInt(2)))},
     getTensors : {Has(PyMethod(Collection("ok")))},
     getTensor  : {Has(PyMethod(PyNone))},
     tensors    : {<<Tensor(x, d)>> : x \in ExtentsAttrs, d \in DataAttrs}]

\* what the caller receives: the outcome without the call log
Outcome(r) == [f \in DOMAIN r \ {"ev"} |-> r[f]]

AllocOutcomes == {"ok", "bad_alloc"}
CudaOutcomes == {"cudaSuccess", "cudaErrorInvalidValue", "cudaErrorIllegalAddress"}

\* tensor_idx values tried: every index of the network and one past its end
Indexes == 0..Len(state.tensors)

Init ==
    /\ state \in NetworkStates \cup ProbedStates \cup SingleTensorStates
    /\ call = [op |-> "none", idx |-> 0]
    /\ result = [thrown |-> FALSE, value |-> FALSE]
    /\ events = <<>>

Invoke(op, idx, r) ==
    /\ call' = [op |-> op, idx |-> idx]
    /\ result' = Outcome(r)
    /\ events' = r.ev
    /\ UNCHANGED state

get_num_qubits == Invoke("get_num_qubits", 0, get_num_qubits_impl(state))

has_tensors == Invoke("has_tensors", 0, has_tensors_impl(state))

get_tensor_info ==
    \E idx \in Indexes : Invoke("get_tensor_info", idx, get_tensor_info_impl(state, idx))

extract_tensor_data ==
    \E idx \in Indexes, alloc \in AllocOutcomes, cuda \in CudaOutcomes :
        Invoke("extract_tensor_data", idx,
               extract_tensor_data_impl(state, idx, alloc, cuda))

get_all_tensors_info ==
    Invoke("get_all_tensors_info", 0, get_all_tensors_info_impl(state))

Next ==
    \/ get_num_qubits
    \/ has_tensors
    \/ get_tensor_info
    \/ extract_tensor_data
    \/ get_all_tensors_info

Spec == Init /\ [][Next]_vars

----------------------------------------------------------------------------
(* Vocabulary of the properties *)

Range(q) == {q[i] : i \in DOMAIN q}
Count(q, x) == Cardinality({i \in DOMAIN q : q[i] = x})

\* the whole-network accessor is there and yields a collection with a length
Enumerable(st) ==
    /\ hasattr(st.getTensors)
    /\ st.getTensors.obj.call = "returns"
    /\ st.getTensors.obj.ret.len = "ok"

\* the single-tensor accessor yields a tensor object for idx
HasTensorAt(st, idx) ==
    /\ hasattr(st.getTensor)
    /\ idx + 1 \in DOMAIN st.tensors
    /\ st.tensors[idx + 1].t = "tensor"

\* the indices of the network whose tensor_descriptor call succeeds
Survivors(st) == {i \in 0..(Len(st.tensors) - 1) : ~get_tensor_info_impl(st, i).thrown}

\* the p-th smallest element of S
Kth(S, p) == CHOOSE k \in S : Cardinality({j \in S : j < k}) = p - 1

\* the product of the extents taken in WideLimbs limbs, where it cannot wrap
ExactProduct(shape) == ProductFrom(shape, 1, Word(1, WideLimbs))

\* a size_t value in WideLimbs limbs
Widen(w) == w \o [i \in 1..(WideLimbs - Len(w)) |-> 0]

\* the descriptors the last call handed to its caller
Descriptors ==
    IF result.thrown THEN {}
    ELSE CASE call.op = "get_tensor_info" -> {result.value}
           [] call.op = "get_all_tensors_info" -> Range(result.value)
           [] OTHER -> {}

----------------------------------------------------------------------------
(* C1: get_all_tensors_info never raises because of one malformed tensor:  *)
(* when the whole-network accessor reports length N, every index 0..N-1 is *)
(* attempted, a failing index is skipped, and the result has exactly one   *)
(* entry per index whose get_tensor_info call succeeded.                   *)
C1_PartialFailureIsolated ==
    (call.op = "get_all_tensors_info" /\ Enumerable(state)) =>
        /\ ~result.thrown
        /\ Count(events, "hasattr(state,getTensor)") = Len(state.tensors)
        /\ Len(result.value) = Cardinality(Survivors(state))

\* a network of 5 tensors whose index 2 alone is malformed gave 4 entries
C1_Witness ==
    /\ call.op = "get_all_tensors_info"
    /\ Enumerable(state)
    /\ Len(state.tensors) = 5
    /\ {i \in 0..4 : ~HasTensorAt(state, i)} = {2}
    /\ ~result.thrown
    /\ Len(result.value) = 4

(* C10: the sequence get_all_tensors_info returns is the order-preserving  *)
(* subsequence of the per-index descriptors: no longer than N, the p-th    *)
(* entry is the descriptor of the p-th surviving index, and that index     *)
(* equals the position exactly when no index below it was skipped.         *)
C10_OrderPreservingSubsequence ==
    (call.op = "get_all_tensors_info" /\ Enumerable(state)) =>
        /\ ~result.thrown
        /\ Len(result.value) <= Len(state.tensors)
        /\ Len(result.value) = Cardinality(Survivors(state))
        /\ \A p \in DOMAIN result.value :
              LET k == Kth(Survivors(state), p)
              IN  /\ result.value[p] = get_tensor_info_impl(state, k).value
                  /\ (k = p - 1) <=> (\A j \in 0..(k - 1) : j \in Survivors(state))

\* a skipped index in front of two survivors with different descriptors
C10_Witness ==
    /\ call.op = "get_all_tensors_info"
    /\ Enumerable(state)
    /\ ~result.thrown
    /\ Len(result.value) = 2
    /\ Survivors(state) = {1, 2}
    /\ result.value[1] # result.value[2]

(* C5 as claimed: every descriptor handed out by get_tensor_info or        *)
(* get_all_tensors_info has total_elements equal to the product of its     *)
(* shape entries (1 for an empty shape) and size_bytes equal to            *)
(* total_elements times 16.                                                *)
C5_Original ==
    \A d \in Descriptors :
        /\ Widen(d.total_elements) = ExactProduct(d.shape)
        /\ Widen(d.size_bytes) = Mul(Widen(d.total_elements), ElementSize)

(* C5 amended: a descriptor built from a tensor that has extents           *)
(* (dtype "complex128") has total_elements = product(shape) modulo 2^64    *)
(* and size_bytes = total_elements * 16 modulo 2^64; a descriptor built    *)
(* from a tensor without extents has shape [] and total_elements =         *)
(* size_bytes = 0.                                                         *)
C5_ProductModuloWord ==
    \A d \in Descriptors :
        IF d.dtype = "complex128"
        THEN /\ d.total_elements = Low(ExactProduct(d.shape), SizeLimbs)
             /\ d.size_bytes = Low(Mul(ExactProduct(d.shape), ElementSize), SizeLimbs)
        ELSE /\ d.shape = <<>>
             /\ d.total_elements = Word(0, SizeLimbs)
             /\ d.size_bytes = Word(0, SizeLimbs)

\* a descriptor whose product wrapped around to a non-zero total_elements
C5_Witness ==
    \E d \in Descriptors :
        /\ d.dtype = "complex128"
        /\ Widen(d.total_elements) # ExactProduct(d.shape)
        /\ d.total_elements # Word(0, SizeLimbs)
        /\ d.size_bytes = Low(Mul(ExactProduct(d.shape), ElementSize), SizeLimbs)

(* C6: get_tensor_info on a tensor object without an extents attribute     *)
(* does not raise; it returns shape [], total_elements 0, size_bytes 0,    *)
(* dtype "unknown", and marks the data available exactly when the tensor   *)
(* object has the data attribute.                                          *)
C6_MissingShapeIsBestEffort ==
    (/\ call.op = "get_tensor_info"
     /\ HasTensorAt(state, call.idx)
     /\ state.tensors[call.idx + 1].extents.look = "absent") =>
        /\ ~result.thrown
        /\ result.value.shape = <<>>
        /\ result.value.total_elements = Word(0, SizeLimbs)
        /\ result.value.size_bytes = Word(0, SizeLimbs)
        /\ result.value.dtype = "unknown"
        /\ (result.value.device_ptr # 0)
              <=> (state.tensors[call.idx + 1].data.look = "ok")

\* a tensor without extents but with data was described as data-available
C6_Witness ==
    /\ call.op = "get_tensor_info"
    /\ HasTensorAt(state, call.idx)
    /\ state.tensors[call.idx + 1].extents.look = "absent"
    /\ state.tensors[call.idx + 1].data.look = "ok"
    /\ ~result.thrown
    /\ result.value.shape = <<>>
    /\ result.value.device_ptr = 1

\* the positions of the device copy in the call log
CopyAt == {i \in DOMAIN events : events[i] = "cudaMemcpy"}

(* C7: when cudaMemcpy reports an error, extract_tensor_data throws an     *)
(* error whose text names the failed copy (which no other failure of the   *)
(* call carries) followed by the device's error string, and the caller     *)
(* receives no buffer.                                                     *)
C7_TransferFailureSurfaced ==
    call.op = "extract_tensor_data" =>
        /\ \A i \in CopyAt :
              events[i + 1] # "cudaSuccess" =>
                  /\ result.thrown
                  /\ result.what = <<"Failed to extract tensor data: ",
                                     "CUDA memcpy failed: ",
                                     CudaGetErrorString(events[i + 1])>>
                  /\ "value" \notin DOMAIN result
        /\ (result.thrown /\ "CUDA memcpy failed: " \in Range(result.what)) =>
              \E i \in CopyAt : events[i + 1] # "cudaSuccess"

\* the copy was made, the device reported an illegal address
C7_Witness ==
    /\ call.op = "extract_tensor_data"
    /\ \E i \in CopyAt : events[i + 1] = "cudaErrorIllegalAddress"
    /\ result.thrown
    /\ result.what[3] = "an illegal memory access was encountered"

(* C9: cudaMemcpy is called only by extract_tensor_data, at most once per  *)
(* call, and only after the extents were read and the device pointer       *)
(* resolved; the other four helpers never call or read data and never      *)
(* copy; an extract_tensor_data that fails before the copy (missing        *)
(* accessor, tensor, extents or data, unresolved pointer) copies nothing.  *)
C9_TransferOnlyAfterResolution ==
    /\ call.op # "extract_tensor_data" =>
          Range(events) \cap {"cudaMemcpy", "tensor.data()", "tensor.data"} = {}
    /\ call.op = "extract_tensor_data" =>
          /\ Cardinality(CopyAt) <= 1
          /\ \A i \in CopyAt :
                /\ \E j \in 1..(i - 1) : events[j] = "tensor.extents"
                /\ \E j \in 1..(i - 1) : events[j] \in {"tensor.data()", "tensor.data"}
                /\ HasTensorAt(state, call.idx)
                /\ ~CastExtents(state.tensors[call.idx + 1].extents, <<>>).thrown
                /\ ~ResolveDevicePtr(state.tensors[call.idx + 1].data, <<>>).thrown
          /\ (\/ ~HasTensorAt(state, call.idx)
              \/ ~hasattr(state.tensors[call.idx + 1].extents)
              \/ ~hasattr(state.tensors[call.idx + 1].data)
              \/ ResolveDevicePtr(state.tensors[call.idx + 1].data, <<>>).thrown)
                => CopyAt = {}

\* an extraction that copied once, after reading extents and calling data()
C9_Witness ==
    /\ call.op = "extract_tensor_data"
    /\ ~result.thrown
    /\ Cardinality(CopyAt) = 1
    /\ "tensor.extents" \in Range(events)
    /\ "tensor.data()" \in Range(events)

(* C2 as claimed: get_all_tensors_info suppresses only per-index           *)
(* extraction failures; a handle that lacks getTensors, or lacks the       *)
(* getTensor used for each index, makes it raise at once instead of        *)
(* returning a sequence.                                                   *)
C2_Original ==
    (/\ call.op = "get_all_tensors_info"
     /\ (state.getTensors.look = "absent" \/ state.getTensor.look = "absent")) =>
        result.thrown

(* C2 amended: get_all_tensors_info suppresses every per-index failure,    *)
(* the missing-getTensor error included: a handle without getTensors, and  *)
(* an enumerable handle without getTensor, both get an empty sequence and  *)
(* no error; the call raises only when calling getTensors, or taking the   *)
(* length of what it returned, itself raises.                              *)
C2_MissingAccessorYieldsEmpty ==
    call.op = "get_all_tensors_info" =>
        /\ ~hasattr(state.getTensors) => (~result.thrown /\ result.value = <<>>)
        /\ (Enumerable(state) /\ ~hasattr(state.getTensor)) =>
              (~result.thrown /\ result.value = <<>>)
        /\ result.thrown <=>
              /\ hasattr(state.getTensors)
              /\ \/ state.getTensors.obj.call # "returns"
                 \/ state.getTensors.obj.ret.len = "raises"

\* a non-empty enumerable network behind a handle without getTensor: every
\* index was tried, and the caller got an empty sequence
C2_Witness ==
    /\ call.op = "get_all_tensors_info"
    /\ Enumerable(state)
    /\ state.getTensor.look = "absent"
    /\ Len(state.tensors) > 0
    /\ Count(events, "hasattr(state,getTensor)") = Len(state.tensors)
    /\ ~result.thrown
    /\ result.value = <<>>

\* the state whose tensor idx exposes value v as a plain data property
WithPropertyData(st, idx, v) ==
    [st EXCEPT !.tensors[idx + 1].data = Has(v)]

(* C3: for the same extents and the same device address, a tensor whose    *)
(* data is only callable and one whose data is only a plain property give  *)
(* extract_tensor_data the same outcome, whether the address is encoded as *)
(* an integer or as a capsule.                                             *)
C3_CallableAndPropertyAgree ==
    (/\ call.op = "extract_tensor_data"
     /\ HasTensorAt(state, call.idx)
     /\ state.tensors[call.idx + 1].data.look = "ok"
     /\ state.tensors[call.idx + 1].data.obj.call = "returns"
     /\ state.tensors[call.idx + 1].data.obj.ret.t \in {"int", "capsule"}
     /\ state.tensors[call.idx + 1].data.obj.ret.n \in Addrs) =>
        \E alloc \in AllocOutcomes, cuda \in CudaOutcomes :
            result = Outcome(extract_tensor_data_impl(
                        WithPropertyData(state, call.idx,
                                         state.tensors[call.idx + 1].data.obj.ret),
                        call.idx, alloc, cuda))

\* the calls extract_tensor_data made to reach the device pointer
DataCalled == "tensor.data()" \in Range(events)
PropertyRead == "tensor.data" \in Range(events)

(* C4 as claimed: data is first invoked as a callable, and the plain       *)
(* property is read only when the attribute is not callable; when the      *)
(* callable is invoked and raises, the property is not read and the call   *)
(* fails.                                                                  *)
C4_Original ==
    (call.op = "extract_tensor_data" /\ DataCalled) =>
        /\ PropertyRead =>
              state.tensors[call.idx + 1].data.obj.call = "notcallable"
        /\ state.tensors[call.idx + 1].data.obj.call = "raises" =>
              (~PropertyRead /\ result.thrown)

(* C4 amended: data is first invoked as a callable, and the plain property *)
(* is read exactly when that invocation raises a Python error, whether the *)
(* attribute is not callable or the callable itself raised; the call then  *)
(* fails unless the attribute itself converts to a pointer.  A callable    *)
(* that returns a value that does not convert fails the call without the   *)
(* property being read.                                                    *)
C4_FallbackOnAnyPythonError ==
    (call.op = "extract_tensor_data" /\ DataCalled) =>
        LET data == state.tensors[call.idx + 1].data.obj
            first == CHOOSE i \in DOMAIN events : events[i] = "tensor.data()"
        IN  /\ PropertyRead <=> data.call # "returns"
            /\ \A i \in DOMAIN events : events[i] = "tensor.data" => i > first
            /\ (data.call # "returns" /\ CastVoidPtr(data, <<>>).thrown) =>
                  (result.thrown /\ CopyAt = {})
            /\ (data.call = "returns" /\ data.ret.t \notin {"none", "capsule", "cppinst"}
                    /\ ~(data.ret.t = "int" /\ data.ret.n >= 0)) =>
                  (result.thrown /\ ~PropertyRead /\ CopyAt = {})

\* a data() that raised, after which the property was read and the call failed
C4_Witness ==
    /\ call.op = "extract_tensor_data"
    /\ DataCalled
    /\ state.tensors[call.idx + 1].data.obj = PyRaising
    /\ PropertyRead
    /\ result.thrown

\* a probe of has_tensors that ran into a raising attribute lookup
ProbeRaised(st) ==
    \/ st.getTensors.look = "raises"
    \/ (st.getTensors.look # "ok" /\ st.getTensor.look = "raises")

(* C8 as claimed: has_tensors returns true iff the handle has getTensor or *)
(* getTensors, returns false without raising when it has neither, and     *)
(* raises when a probe fails for another reason (the lookup raises).       *)
C8_Original ==
    call.op = "has_tensors" =>
        IF ProbeRaised(state)
        THEN result.thrown
        ELSE /\ ~result.thrown
             /\ result.value <=>
                   (state.getTensors.look = "ok" \/ state.getTensor.look = "ok")

(* C8 amended: has_tensors never raises; it returns true iff the lookup of *)
(* getTensors or of getTensor succeeds, so a handle exposing neither gets  *)
(* false, and an accessor whose lookup raises counts as missing.           *)
C8_ProbeNeverRaises ==
    call.op = "has_tensors" =>
        /\ ~result.thrown
        /\ result.value <=>
              (state.getTensors.look = "ok" \/ state.getTensor.look = "ok")

\* both lookups raised and the answer was false
C8_Witness ==
    /\ call.op = "has_tensors"
    /\ state.getTensors.look = "raises"
    /\ state.getTensor.look = "raises"
    /\ ~result.thrown
    /\ result.value = FALSE

====
